---- MODULE Spec2Model ----
(***************************************************************************)
(* The dynamic endpoint reconciler of the read/write splitting strategy:   *)
(* MonitorReconcile::report (discovery/monitor_reconcile.rs).  One loop    *)
(* iteration ("tick") receives monitors_len monitor responses, fuses the   *)
(* retained response of each kind into a ReadWriteEndpoint, sends it when  *)
(* it differs from the previous one and stores it as the previous one.     *)
(*                                                                         *)
(* Spec is the task alone, its responses drawn from every full response;   *)
(* PartialSpec draws responses that omit addresses; MonitorsSpec adds the  *)
(* monitor response channel; RouterSpec adds the channel the task sends on *)
(* and its other end; ConfigSpec is the deserialization of the discovery   *)
(* configuration (config.rs).                                              *)
(*                                                                         *)
(* An Endpoint is modelled by its address (its identity).  An Option is a  *)
(* sequence of length at most one.  The maps of the monitor responses are  *)
(* functions; a loop over a map runs in an order the tick chooses.         *)
(***************************************************************************)
EXTENDS Naturals, Sequences, FiniteSets

VARIABLES
    rw_endpoint,                       \* the configured ReadWriteEndpoint
    connect_monitor_response,          \* Option<ConnectMonitorResponse>
    ping_monitor_response,             \* Option<PingMonitorResponse>
    replication_lag_monitor_response,  \* Option<ReplicationLagMonitorResponse>
    read_only_monitor_response,        \* Option<ReadOnlyMonitorResponse>
    pre_rw_endpoint,                   \* the value fused on the previous tick
    received,                          \* responses received in the current tick
    sent,                              \* Option: what the last completed tick sent on s
    last_sent,                         \* Option: the most recent value sent on s
    pc,                                \* "running", or "panicked" once the task aborted
    ticks,                             \* completed loop iterations
    unchanged,                         \* every response of the tick equalled the one retained before it
    monitor_response_rx,               \* the responses waiting in the monitor response channel
    monitors_gone,                     \* every sender of the monitor response channel is dropped
    rx,                                \* the values waiting in the channel start_monitor_reconcile returns
    rx_dropped,                        \* every receiver of that channel is dropped
    latest,                            \* Option: the value the consumer last received from rx
    send_err,                          \* a s.send returned Err
    shutdown,                          \* Option: the number of completed ticks when shutdown was requested
    given,                             \* the fields a master_high_availability document gives
    mha                                \* Option<MasterHighAvailability>: the document deserialized

\* The state of the reconciler task.
task_vars == <<rw_endpoint, connect_monitor_response, ping_monitor_response,
               replication_lag_monitor_response, read_only_monitor_response,
               pre_rw_endpoint, received, sent, last_sent, pc, ticks, unchanged>>

\* The two channels, their other ends and the shutdown request.
channel_vars == <<monitor_response_rx, monitors_gone, rx, rx_dropped, latest, send_err,
                  shutdown>>

\* The strategy configuration.
config_vars == <<given, mha>>

vars == <<task_vars, channel_vars, config_vars>>

\* The number of loop iterations explored.
MaxTicks == 2

\* The number of responses the model lets wait in the monitor response channel.
MaxQueue == 2

\* The number of monitors whose responses one tick receives.
monitors_len == 4

None == <<>>
Some(v) == <<v>>
Unwrap(o) == o[1]

Range(s) == {s[i] : i \in DOMAIN s}

\* The orders in which a loop can visit the keys S of a map.
Perms(S) == {o \in [1..Cardinality(S) -> S] : \A i, j \in 1..Cardinality(S) : o[i] = o[j] => i = j}

ConnectStatus == {"Connected", "Disconnected"}
PingStatus == {"PingOk", "PingNotOk"}
NodeRole == {"Master", "Slave"}
LagStatus == [is_latency : BOOLEAN]

\* The configurations: one primary p and the replicas r1, r2 in this order.
Configs ==
    {[readwrite |-> <<"p">>, read |-> <<"r1", "r2">>, read_only |-> <<"r1", "r2">>]}

\* One primary p and one replica r1.
OneReplica ==
    {[readwrite |-> <<"p">>, read |-> <<"r1">>, read_only |-> <<"r1">>]}

ConnectMonitorResponse(cfg) ==
    [readwrite : [Range(cfg.readwrite) -> ConnectStatus], read : [Range(cfg.read) -> ConnectStatus]]
PingMonitorResponse(cfg) ==
    [readwrite : [Range(cfg.readwrite) -> PingStatus], read : [Range(cfg.read) -> PingStatus]]
ReadOnlyMonitorResponse(cfg) ==
    [roles : [Range(cfg.read) -> NodeRole]]
ReplicationLagMonitorResponse(cfg) ==
    [latency : [Range(cfg.read) -> LagStatus]]

\* What a monitor can put on the monitor response channel.
MonitorResponse(cfg) ==
    [kind : {"ConnectMonitorResponse"}, val : ConnectMonitorResponse(cfg)]
    \cup [kind : {"PingMonitorResponse"}, val : PingMonitorResponse(cfg)]
    \cup [kind : {"ReadOnlyMonitorResponse"}, val : ReadOnlyMonitorResponse(cfg)]
    \cup [kind : {"ReplicationLagResponse"}, val : ReplicationLagMonitorResponse(cfg)]

\* The maps from some of the addresses S to V.
PartialMaps(S, V) == UNION {[D -> V] : D \in SUBSET S}

\* The responses whose maps have an entry for some of the configured addresses.
PartialMonitorResponse(cfg) ==
    [kind : {"ConnectMonitorResponse"},
     val : [readwrite : PartialMaps(Range(cfg.readwrite), ConnectStatus),
            read : PartialMaps(Range(cfg.read), ConnectStatus)]]
    \cup [kind : {"PingMonitorResponse"},
          val : [readwrite : PartialMaps(Range(cfg.readwrite), PingStatus),
                 read : PartialMaps(Range(cfg.read), PingStatus)]]
    \cup [kind : {"ReadOnlyMonitorResponse"},
          val : [roles : PartialMaps(Range(cfg.read), NodeRole)]]
    \cup [kind : {"ReplicationLagResponse"},
          val : [latency : PartialMaps(Range(cfg.read), LagStatus)]]

(***************************************************************************)
(* The fusion of one tick.  The working value w is curr_rw_endpoint with a *)
(* flag panic, set when an unwrap or a Vec::remove aborts the task.        *)
(***************************************************************************)
Panic(w) == [w EXCEPT !.panic = TRUE]

\* iter().position(|r| r.addr.eq(addr)): the first index of addr in s, 0 for None.
Position(s, addr) ==
    IF \E i \in DOMAIN s : s[i] = addr
    THEN CHOOSE i \in DOMAIN s : s[i] = addr /\ \A j \in 1..(i - 1) : s[j] # addr
    ELSE 0

RemoveAt(s, i) == SubSeq(s, 1, i - 1) \o SubSeq(s, i + 1, Len(s))

\* RemoveRead taking the address out of read_only as well.
RemoveReadAndBaseline(w, rw, addr) ==
    LET idx == Position(rw.read, addr)
    IN  IF idx = 0 \/ idx > Len(w.read)
        THEN Panic(w)
        ELSE [w EXCEPT !.read = RemoveAt(@, idx), !.read_only = RemoveAt(@, idx)]

\* curr_rw_endpoint.read.remove(rw_endpoint.read.iter().position(addr).unwrap()):
\* the index is taken in the configured list and used in the working list.
RemoveRead(w, rw, addr) ==
    LET idx == Position(rw.read, addr)
    IN  IF idx = 0 \/ idx > Len(w.read)
        THEN Panic(w)
        ELSE [w EXCEPT !.read = RemoveAt(@, idx)]

\* The scan of the working read list for a replica that became master: every
\* replica whose role is Master replaces the readwrite list.
RECURSIVE PromoteScan(_, _, _)
PromoteScan(w, eps, roles) ==
    IF eps = <<>> \/ w.panic
    THEN w
    ELSE LET read_endpoint == Head(eps)
         IN  IF read_endpoint \notin DOMAIN roles
             THEN Panic(w)
             ELSE PromoteScan(IF roles[read_endpoint] = "Master"
                              THEN [w EXCEPT !.readwrite = <<read_endpoint>>]
                              ELSE w,
                              Tail(eps), roles)

\* ReadWritePingStep without the test of the ping status.
ReadWritePingStepAnyStatus(w, status, read_only) ==
    IF Len(w.read) > 0
    THEN IF read_only = None
         THEN Panic(w)
         ELSE PromoteScan(w, w.read, Unwrap(read_only).roles)
    ELSE w

\* Primary connected, one entry of ping.readwrite.
ReadWritePingStep(w, status, read_only) ==
    IF status = "PingOk"
    THEN w
    ELSE IF Len(w.read) > 0
         THEN IF read_only = None
              THEN Panic(w)
              ELSE PromoteScan(w, w.read, Unwrap(read_only).roles)
         ELSE w

RECURSIVE ReadWritePingScan(_, _, _, _)
ReadWritePingScan(w, readwrite, order, read_only) ==
    IF order = <<>> \/ w.panic
    THEN w
    ELSE ReadWritePingScan(ReadWritePingStep(w, readwrite[Head(order)], read_only),
                           readwrite, Tail(order), read_only)

\* One entry of connect.readwrite.
ReadWriteConnectStep(w, status, ping, read_only, ord) ==
    IF status = "Connected"
    THEN IF ping = None
         THEN Panic(w)
         ELSE ReadWritePingScan(w, Unwrap(ping).readwrite, ord.ping_readwrite, read_only)
    ELSE IF read_only = None
         THEN w
         ELSE PromoteScan(w, w.read, Unwrap(read_only).roles)

RECURSIVE ReadWriteConnectScan(_, _, _, _, _, _)
ReadWriteConnectScan(w, readwrite, order, ping, read_only, ord) ==
    IF order = <<>> \/ w.panic
    THEN w
    ELSE ReadWriteConnectScan(
             ReadWriteConnectStep(w, readwrite[Head(order)], ping, read_only, ord),
             readwrite, Tail(order), ping, read_only, ord)

\* One entry of replication_lag.latency, reached for a connected replica and a
\* PingOk entry of ping.read.
LagStep(w, rw, replication_lag_addr, lag_status) ==
    IF ~lag_status.is_latency
    THEN IF replication_lag_addr \in Range(w.read)
         THEN w
         ELSE [w EXCEPT !.read = @ \o @]
    ELSE RemoveRead(w, rw, replication_lag_addr)

RECURSIVE LagScan(_, _, _, _)
LagScan(w, rw, latency, order) ==
    IF order = <<>> \/ w.panic
    THEN w
    ELSE LagScan(LagStep(w, rw, Head(order), latency[Head(order)]), rw, latency, Tail(order))

\* One entry of ping.read, reached for a connected replica.
ReadPingStep(w, rw, read_ping_addr, status, lag, ord) ==
    IF status = "PingOk"
    THEN IF lag = None
         THEN w
         ELSE LagScan(w, rw, Unwrap(lag).latency, ord.latency)
    ELSE RemoveRead(w, rw, read_ping_addr)

RECURSIVE ReadPingScan(_, _, _, _, _, _)
ReadPingScan(w, rw, read, order, lag, ord) ==
    IF order = <<>> \/ w.panic
    THEN w
    ELSE ReadPingScan(ReadPingStep(w, rw, Head(order), read[Head(order)], lag, ord),
                      rw, read, Tail(order), lag, ord)

\* One entry of connect.read.
ReadConnectStep(w, rw, read_addr, status, ping, lag, ord) ==
    IF status = "Connected"
    THEN IF ping = None
         THEN w
         ELSE ReadPingScan(w, rw, Unwrap(ping).read, ord.ping_read, lag, ord)
    ELSE RemoveRead(w, rw, read_addr)

RECURSIVE ReadConnectScan(_, _, _, _, _, _, _)
ReadConnectScan(w, rw, read, order, ping, lag, ord) ==
    IF order = <<>> \/ w.panic
    THEN w
    ELSE ReadConnectScan(ReadConnectStep(w, rw, Head(order), read[Head(order)], ping, lag, ord),
                         rw, read, Tail(order), ping, lag, ord)

\* The keys of a map of an optional response.
Keys(o, field) == IF o = None THEN {} ELSE DOMAIN Unwrap(o)[field]

\* The iteration orders one tick can see for the maps it loops over.
Orders(connect, ping, lag) ==
    [connect_readwrite : Perms(Keys(connect, "readwrite")),
     ping_readwrite : Perms(Keys(ping, "readwrite")),
     connect_read : Perms(Keys(connect, "read")),
     ping_read : Perms(Keys(ping, "read")),
     latency : Perms(Keys(lag, "latency"))]

\* curr_rw_endpoint after the two loops over the connect response.
Fuse(rw, connect, ping, lag, read_only, ord) ==
    LET w0 == [readwrite |-> rw.readwrite, read |-> rw.read,
               read_only |-> rw.read_only, panic |-> FALSE]
    IN  IF connect = None
        THEN Panic(w0)
        ELSE ReadConnectScan(
                 ReadWriteConnectScan(w0, Unwrap(connect).readwrite, ord.connect_readwrite,
                                      ping, read_only, ord),
                 rw, Unwrap(connect).read, ord.connect_read, ping, lag, ord)

Endpoint(w) == [readwrite |-> w.readwrite, read |-> w.read, read_only |-> w.read_only]

\* The number of entries of s with address a.
Count(s, a) == Cardinality({i \in DOMAIN s : s[i] = a})

SameAddrs(s, t) == Range(s) = Range(t) /\ \A a \in Range(s) : Count(s, a) = Count(t, a)

\* ReadWriteEndpoint equality: the same addresses, with the same multiplicity, per field.
EndpointEq(a, b) ==
    /\ SameAddrs(a.readwrite, b.readwrite)
    /\ SameAddrs(a.read, b.read)
    /\ SameAddrs(a.read_only, b.read_only)

\* Send without the comparison with pre_rw_endpoint.
SendAlways(pre, curr) == Some(curr)

\* if pre_rw_endpoint != curr_rw_endpoint { s.send(curr_rw_endpoint.clone()) }:
\* what the tick sends on s.
Send(pre, curr) == IF ~EndpointEq(pre, curr) THEN Some(curr) ELSE None

\* A send on a channel made by unbounded(): v goes behind the values waiting.
ChannelSend(q, v) == Append(q, v)

(***************************************************************************)
(* The mha discovery configuration (config.rs): a field the document omits *)
(* takes the value of the function its serde(default) attribute names.     *)
(***************************************************************************)
default_monitor_period == 1000
default_connect_period == 1000

\* default_connect_timeout returning the default of the period.
PeriodForTimeout == default_connect_period

default_connect_timeout == 6000
default_connect_failure_threshold == 1
default_ping_period == 1000
default_ping_timeout == 6000
default_ping_failure_threshold == 1
default_replication_lag_period == 1000
default_replication_lag_timeout == 6000
default_replication_lag_failure_threshold == 1
default_max_replication_lag == 10000
default_read_only_period == 1000
default_read_only_timeout == 6000
default_read_only_failure_threshold == 1

\* The fields of MasterHighAvailability with a serde(default).
Fields ==
    {"monitor_period",
     "connect_period", "connect_timeout", "connect_failure_threshold",
     "ping_period", "ping_timeout", "ping_failure_threshold",
     "replication_lag_period", "replication_lag_timeout", "replication_lag_failure_threshold",
     "max_replication_lag",
     "read_only_period", "read_only_timeout", "read_only_failure_threshold"}

Default(f) ==
    CASE f = "monitor_period" -> default_monitor_period
      [] f = "connect_period" -> default_connect_period
      [] f = "connect_timeout" -> default_connect_timeout
      [] f = "connect_failure_threshold" -> default_connect_failure_threshold
      [] f = "ping_period" -> default_ping_period
      [] f = "ping_timeout" -> default_ping_timeout
      [] f = "ping_failure_threshold" -> default_ping_failure_threshold
      [] f = "replication_lag_period" -> default_replication_lag_period
      [] f = "replication_lag_timeout" -> default_replication_lag_timeout
      [] f = "replication_lag_failure_threshold" -> default_replication_lag_failure_threshold
      [] f = "max_replication_lag" -> default_max_replication_lag
      [] f = "read_only_period" -> default_read_only_period
      [] f = "read_only_timeout" -> default_read_only_timeout
      [] f = "read_only_failure_threshold" -> default_read_only_failure_threshold

\* The values a document gives to the fields it does not omit.
GivenValues == {2500}

\* The documents: each field omitted (None) or given.
Docs == [Fields -> {None} \cup {Some(v) : v \in GivenValues}]

\* The document of the strategy whose reconciler runs: the model of the task
\* reads none of its fields.
NoFields == [f \in Fields |-> None]

\* serde's deserialization of the struct.
Deserialized(doc) == [f \in Fields |-> IF doc[f] = None THEN Default(f) ELSE Unwrap(doc[f])]

Deserialize ==
    /\ mha = None
    /\ mha' = Some(Deserialized(given))
    /\ UNCHANGED <<task_vars, channel_vars, given>>

(***************************************************************************)
(* The reconciler task.                                                    *)
(***************************************************************************)
\* The state after MonitorReconcile::new and start_monitor_reconcile, for a
\* configured endpoint of cfgs and a configuration document of docs.
Constructed(cfgs, docs) ==
    /\ rw_endpoint \in cfgs
    /\ connect_monitor_response = None
    /\ ping_monitor_response = None
    /\ replication_lag_monitor_response = None
    /\ read_only_monitor_response = None
    /\ pre_rw_endpoint = rw_endpoint
    /\ received = 0
    /\ sent = None
    /\ last_sent = None
    /\ pc = "running"
    /\ ticks = 0
    /\ unchanged = TRUE
    /\ monitor_response_rx = <<>>
    /\ monitors_gone = FALSE
    /\ rx = <<>>
    /\ rx_dropped = FALSE
    /\ latest = None
    /\ send_err = FALSE
    /\ shutdown = None
    /\ given \in docs
    /\ mha = None

Init == Constructed(Configs, {NoFields})

\* The retained response of the kind of m.
Retained(m) ==
    CASE m.kind = "ConnectMonitorResponse" -> connect_monitor_response
      [] m.kind = "PingMonitorResponse" -> ping_monitor_response
      [] m.kind = "ReadOnlyMonitorResponse" -> read_only_monitor_response
      [] m.kind = "ReplicationLagResponse" -> replication_lag_monitor_response

\* One monitor_response_rx.recv() of the for loop returning m: the response
\* replaces the retained one of its kind.
Receive(m) ==
    /\ pc = "running"
    /\ ticks < MaxTicks
    /\ received < monitors_len
    /\ connect_monitor_response' =
           IF m.kind = "ConnectMonitorResponse" THEN Some(m.val) ELSE connect_monitor_response
    /\ ping_monitor_response' =
           IF m.kind = "PingMonitorResponse" THEN Some(m.val) ELSE ping_monitor_response
    /\ read_only_monitor_response' =
           IF m.kind = "ReadOnlyMonitorResponse" THEN Some(m.val) ELSE read_only_monitor_response
    /\ replication_lag_monitor_response' =
           IF m.kind = "ReplicationLagResponse" THEN Some(m.val)
           ELSE replication_lag_monitor_response
    /\ received' = received + 1
    /\ unchanged' = ((received = 0 \/ unchanged) /\ Retained(m) = Some(m.val))
    /\ UNCHANGED <<rw_endpoint, pre_rw_endpoint, sent, last_sent, pc, ticks>>

\* A monitor sends m and the recv() the task is blocked in returns it.
Recv(m) ==
    /\ ~monitors_gone
    /\ monitor_response_rx = <<>>
    /\ Receive(m)
    /\ UNCHANGED <<channel_vars, config_vars>>

\* A monitor sends m on the monitor response channel, which is unbounded.
Publish(m) ==
    /\ ~monitors_gone
    /\ Len(monitor_response_rx) < MaxQueue
    /\ monitor_response_rx' = Append(monitor_response_rx, m)
    /\ UNCHANGED <<task_vars, monitors_gone, rx, rx_dropped, latest, send_err, shutdown,
                   config_vars>>

\* recv() returns the oldest response waiting in the channel.
RecvQueued ==
    /\ monitor_response_rx # <<>>
    /\ Receive(Head(monitor_response_rx))
    /\ monitor_response_rx' = Tail(monitor_response_rx)
    /\ UNCHANGED <<monitors_gone, rx, rx_dropped, latest, send_err, shutdown, config_vars>>

\* The monitors drop their senders.
MonitorsGone ==
    /\ ~monitors_gone
    /\ monitors_gone' = TRUE
    /\ UNCHANGED <<task_vars, monitor_response_rx, rx, rx_dropped, latest, send_err,
                   shutdown, config_vars>>

\* recv() on the empty channel without senders returns Err: the unwrap panics.
RecvDisconnected ==
    /\ pc = "running"
    /\ received < monitors_len
    /\ monitors_gone
    /\ monitor_response_rx = <<>>
    /\ pc' = "panicked"
    /\ UNCHANGED <<rw_endpoint, connect_monitor_response, ping_monitor_response,
                   replication_lag_monitor_response, read_only_monitor_response,
                   pre_rw_endpoint, received, sent, last_sent, ticks, unchanged,
                   channel_vars, config_vars>>

\* The rest of the loop body once monitors_len responses are in: the fusion, the
\* send on change, the update of pre_rw_endpoint.  A panic ends the task.
Tick ==
    /\ pc = "running"
    /\ received = monitors_len
    /\ \E ord \in Orders(connect_monitor_response, ping_monitor_response,
                         replication_lag_monitor_response) :
         LET w == Fuse(rw_endpoint, connect_monitor_response, ping_monitor_response,
                       replication_lag_monitor_response, read_only_monitor_response, ord)
             curr_rw_endpoint == Endpoint(w)
         IN  IF w.panic
             THEN /\ pc' = "panicked"
                  /\ UNCHANGED <<pre_rw_endpoint, received, sent, last_sent, ticks, unchanged>>
             ELSE /\ sent' = Send(pre_rw_endpoint, curr_rw_endpoint)
                  /\ last_sent' = IF sent' = None THEN last_sent ELSE sent'
                  /\ pre_rw_endpoint' = curr_rw_endpoint
                  /\ received' = 0
                  /\ ticks' = ticks + 1
                  /\ UNCHANGED <<unchanged, pc>>
    /\ UNCHANGED <<rw_endpoint, connect_monitor_response, ping_monitor_response,
                   replication_lag_monitor_response, read_only_monitor_response>>

\* The tick of the task alone: what it sends is in sent and last_sent.
Reconcile == Tick /\ UNCHANGED <<channel_vars, config_vars>>

\* The tick with the channel it sends on: s.send(v) on the unbounded channel puts
\* v behind the values waiting, or returns Err once every receiver is dropped;
\* the Err is logged and the loop goes on.
ReconcileSend ==
    /\ Tick
    /\ IF pc' = "running" /\ sent' # None
       THEN IF rx_dropped
            THEN send_err' = TRUE /\ rx' = rx
            ELSE send_err' = send_err /\ rx' = ChannelSend(rx, Unwrap(sent'))
       ELSE UNCHANGED <<rx, send_err>>
    /\ UNCHANGED <<monitor_response_rx, monitors_gone, rx_dropped, latest, shutdown,
                   config_vars>>

\* The holder of the receiver start_monitor_reconcile returned takes a value.
RouterRecv ==
    /\ ~rx_dropped
    /\ rx # <<>>
    /\ latest' = Some(Head(rx))
    /\ rx' = Tail(rx)
    /\ UNCHANGED <<task_vars, monitor_response_rx, monitors_gone, rx_dropped, send_err,
                   shutdown, config_vars>>

\* The holder drops the receiver: the channel and what waits in it are gone.
RouterDrop ==
    /\ ~rx_dropped
    /\ rx_dropped' = TRUE
    /\ rx' = <<>>
    /\ UNCHANGED <<task_vars, monitor_response_rx, monitors_gone, latest, send_err,
                   shutdown, config_vars>>

\* The strategy is asked to shut down.  report takes no shutdown signal: no
\* statement of the loop reads the request.
Shutdown ==
    /\ shutdown = None
    /\ shutdown' = Some(ticks)
    /\ UNCHANGED <<task_vars, monitor_response_rx, monitors_gone, rx, rx_dropped, latest,
                   send_err, config_vars>>

Next ==
    \/ \E m \in MonitorResponse(rw_endpoint) : Recv(m)
    \/ Reconcile

Spec == Init /\ [][Next]_vars

(***************************************************************************)
(* The deserialization of the discovery configuration, for every document. *)
(***************************************************************************)
ConfigInit == Constructed(Configs, Docs)

ConfigNext == Deserialize

ConfigSpec == ConfigInit /\ [][ConfigNext]_vars

(***************************************************************************)
(* The task with responses that omit addresses, for one replica.           *)
(***************************************************************************)
PartialInit == Constructed(OneReplica, {NoFields})

PartialNext ==
    \/ \E m \in PartialMonitorResponse(rw_endpoint) : Recv(m)
    \/ Reconcile

PartialSpec == PartialInit /\ [][PartialNext]_vars

(***************************************************************************)
(* The task with the monitor response channel and the monitors sending at  *)
(* their own pace, for one replica.                                        *)
(***************************************************************************)
MonitorsInit == Constructed(OneReplica, {NoFields})

MonitorsNext ==
    \/ \E m \in MonitorResponse(rw_endpoint) : Publish(m)
    \/ RecvQueued
    \/ Reconcile

MonitorsSpec == MonitorsInit /\ [][MonitorsNext]_vars

(***************************************************************************)
(* The task with the channel it sends on, the holder of the receiver, the  *)
(* monitors dropping their senders and a shutdown request, for one replica.*)
(***************************************************************************)
RouterInit == Constructed(OneReplica, {NoFields})

RouterNext ==
    \/ \E m \in MonitorResponse(rw_endpoint) : Recv(m)
    \/ MonitorsGone
    \/ RecvDisconnected
    \/ ReconcileSend
    \/ RouterRecv
    \/ RouterDrop
    \/ Shutdown

RouterSpec == RouterInit /\ [][RouterNext]_vars

(***************************************************************************)
(* The properties.                                                         *)
(***************************************************************************)
\* A tick has just completed: the retained responses are the ones it fused and
\* pre_rw_endpoint is the value it fused.
Fused == pc = "running" /\ received = 0 /\ ticks > 0

\* The step that completes a tick.
TickStep == ticks' = ticks + 1

AllSome ==
    /\ connect_monitor_response # None
    /\ ping_monitor_response # None
    /\ replication_lag_monitor_response # None
    /\ read_only_monitor_response # None

Primary == rw_endpoint.readwrite[1]
Replicas == Range(rw_endpoint.read)

PrimaryHealthy ==
    /\ AllSome
    /\ Unwrap(connect_monitor_response).readwrite[Primary] = "Connected"
    /\ Unwrap(ping_monitor_response).readwrite[Primary] = "PingOk"

PrimaryBad ==
    /\ AllSome
    /\ \/ Unwrap(connect_monitor_response).readwrite[Primary] = "Disconnected"
       \/ Unwrap(ping_monitor_response).readwrite[Primary] = "PingNotOk"

\* The replicas the ReadOnly snapshot reports as promoted.
Masters == {r \in Replicas : Unwrap(read_only_monitor_response).roles[r] = "Master"}

ReplicaHealthy(r) ==
    /\ AllSome
    /\ Unwrap(connect_monitor_response).read[r] = "Connected"
    /\ Unwrap(ping_monitor_response).read[r] = "PingOk"
    /\ ~Unwrap(replication_lag_monitor_response).latency[r].is_latency

\* s holds each address at most once, in the order of t.
IsSubsequence(s, t) ==
    /\ Range(s) \subseteq Range(t)
    /\ \A i, j \in DOMAIN s : i < j => Position(t, s[i]) < Position(t, s[j])

\* s holds r once, after the addresses t has before r and before the others.
InPlace(r, s, t) ==
    /\ Count(s, r) = 1
    /\ \A i, j \in DOMAIN s :
           (i < j /\ (s[i] = r \/ s[j] = r)) => Position(t, s[i]) < Position(t, s[j])

\* The addresses in lexicographic order.
AddrOrder == <<"p", "r1", "r2">>
Smallest(S) == CHOOSE a \in S : \A b \in S : Position(AddrOrder, a) <= Position(AddrOrder, b)

\* C1: every ReadWriteEndpoint sent on the output channel has disjoint pools: no
\* address is in both readwrite and read.
C1_SentPoolsDisjoint ==
    sent # None => Range(Unwrap(sent).readwrite) \cap Range(Unwrap(sent).read) = {}

\* C2: on every tick the configured replicas, not promoted on the tick, in the
\* fused read pool are exactly those the snapshots show Connected, PingOk and not
\* over the lag threshold.
C2_ReadPoolIsHealthyReplicas ==
    (Fused /\ AllSome) =>
        \A r \in Replicas \ Range(pre_rw_endpoint.readwrite) :
            r \in Range(pre_rw_endpoint.read) <=> ReplicaHealthy(r)

\* C3: on a tick where the primary is Disconnected or PingNotOk and exactly one
\* replica r has role Master, the fused readwrite pool is <<r>>, r has left the
\* read pool, and the value is the latest one sent.
C3_FailoverPromotion ==
    (Fused /\ PrimaryBad) =>
        \A r \in Replicas :
            Masters = {r} =>
                /\ pre_rw_endpoint.readwrite = <<r>>
                /\ r \notin Range(pre_rw_endpoint.read)
                /\ last_sent = Some(pre_rw_endpoint)

\* C4: on a tick where the primary is Disconnected or PingNotOk and no replica has
\* role Master, the fused readwrite pool is empty.
C4_NoPrimaryEmptyPool ==
    (Fused /\ PrimaryBad /\ Masters = {}) => pre_rw_endpoint.readwrite = <<>>

\* C5: a tick sends the fused value if and only if it differs from the value
\* fused on the previous tick (the configured endpoint on the first tick), what it
\* sends is the fused value, which becomes the previous one, and a value sent
\* differs from the value sent before it; while nothing was sent the previous
\* value equals the configured endpoint.
C5_EmitOnlyOnChange ==
    [][TickStep =>
          /\ (sent' # None) <=> ~EndpointEq(pre_rw_endpoint, pre_rw_endpoint')
          /\ sent' # None => sent' = Some(pre_rw_endpoint')
          /\ (sent' # None /\ last_sent # None) =>
                 ~EndpointEq(Unwrap(last_sent), Unwrap(sent'))
          /\ last_sent' = None => EndpointEq(pre_rw_endpoint', rw_endpoint)]_vars

\* A tick that fused the value of the tick before it, which had been sent, and
\* sent nothing.
C5_Witness == Fused /\ ticks >= 2 /\ sent = None /\ last_sent # None

\* C6: a tick on which all four snapshots have the contents they had on the
\* previous tick sends nothing.
C6_SameSnapshotsSendNothing ==
    (Fused /\ ticks >= 2 /\ unchanged) => sent = None

\* C7: on every tick the fused read pool is a subsequence of the configured
\* replica list: no address twice, configuration order kept.
C7_ReadPoolSubsequence ==
    Fused =>
        /\ IsSubsequence(pre_rw_endpoint.read, rw_endpoint.read)
        /\ \A a \in Range(pre_rw_endpoint.read) : Count(pre_rw_endpoint.read, a) = 1

\* C8: on a tick where the primary is Disconnected or PingNotOk and two or more
\* replicas have role Master, the fused readwrite pool is the one of them with
\* the lexicographically smallest address.
C8_FailoverTieBreak ==
    (Fused /\ PrimaryBad /\ Cardinality(Masters) >= 2) =>
        pre_rw_endpoint.readwrite = <<Smallest(Masters)>>

\* C9: on every tick where the primary is Connected and PingOk the fused
\* readwrite pool is the configured primary, whatever the roles; when the value
\* fused before had another readwrite pool, the tick sends the fused value.
C9_HealthyPrimaryKept ==
    [][(TickStep /\ PrimaryHealthy) =>
          /\ pre_rw_endpoint'.readwrite = rw_endpoint.readwrite
          /\ pre_rw_endpoint.readwrite # rw_endpoint.readwrite =>
                 sent' = Some(pre_rw_endpoint')]_vars

\* A tick with a healthy primary and a replica reporting Master that took the
\* readwrite pool back to the configured primary and sent the value.
C9_Witness ==
    /\ Fused
    /\ PrimaryHealthy
    /\ Masters # {}
    /\ pre_rw_endpoint.readwrite = rw_endpoint.readwrite
    /\ sent = Some(pre_rw_endpoint)
    /\ ticks >= 2

\* C10: a replica missing from the read pool fused on a tick is, on the next tick
\* whose snapshots show it healthy, back in the fused read pool at its place in
\* the configuration order, and that tick sends the fused value.
C10_ReadPoolRecovery ==
    [][\A r \in Replicas :
          (TickStep /\ ticks >= 1 /\ r \notin Range(pre_rw_endpoint.read) /\ ReplicaHealthy(r)) =>
              /\ InPlace(r, pre_rw_endpoint'.read, rw_endpoint.read)
              /\ sent' = Some(pre_rw_endpoint')]_vars

\* The entries the snapshots have for a configured address: Connect and Ping for
\* every address, ReadOnly and ReplicationLag for the replicas.
HasEntries(a) ==
    IF a \in Range(rw_endpoint.readwrite)
    THEN /\ a \in DOMAIN Unwrap(connect_monitor_response).readwrite
         /\ a \in DOMAIN Unwrap(ping_monitor_response).readwrite
    ELSE /\ a \in DOMAIN Unwrap(connect_monitor_response).read
         /\ a \in DOMAIN Unwrap(ping_monitor_response).read
         /\ a \in DOMAIN Unwrap(read_only_monitor_response).roles
         /\ a \in DOMAIN Unwrap(replication_lag_monitor_response).latency

Addresses == Range(rw_endpoint.readwrite) \cup Range(rw_endpoint.read)

\* No snapshot has an entry for the configured address.
NoEntry(a) ==
    IF a \in Range(rw_endpoint.readwrite)
    THEN /\ a \notin DOMAIN Unwrap(connect_monitor_response).readwrite
         /\ a \notin DOMAIN Unwrap(ping_monitor_response).readwrite
    ELSE /\ a \notin DOMAIN Unwrap(connect_monitor_response).read
         /\ a \notin DOMAIN Unwrap(ping_monitor_response).read
         /\ a \notin DOMAIN Unwrap(read_only_monitor_response).roles
         /\ a \notin DOMAIN Unwrap(replication_lag_monitor_response).latency

\* The task is about to fuse snapshots of the four kinds.
FusesAll == pc = "running" /\ received = monitors_len /\ AllSome

\* The tick completes although a configured address lacks an entry.
AbsentAddressNoPanic ==
    (FusesAll /\ \E a \in Addresses : ~HasEntries(a)) => pc' = "running"

\* An address without an entry in any snapshot stays in or out of each pool.
AbsentAddressKeepsMembership ==
    \A a \in Addresses :
        (FusesAll /\ NoEntry(a) /\ TickStep) =>
            /\ a \in Range(pre_rw_endpoint'.readwrite) <=> a \in Range(pre_rw_endpoint.readwrite)
            /\ a \in Range(pre_rw_endpoint'.read) <=> a \in Range(pre_rw_endpoint.read)

\* C11: a tick whose snapshots, all four present, lack an entry for a configured
\* address completes, and a configured address for which no snapshot of the tick
\* has an entry is in the fused readwrite pool and in the fused read pool exactly
\* when it was in the pool fused on the previous tick.
C11_AbsentAddressKeepsDecision ==
    [][AbsentAddressNoPanic /\ AbsentAddressKeepsMembership]_vars

\* The step in which the holder of the receiver takes a value from the channel.
RouterTakes == ~rx_dropped' /\ rx # <<>> /\ rx' = Tail(rx)

\* C12: a value the consumer takes from the channel is the latest value sent so
\* far, and no value stays behind it in the channel.
C12_ConsumerTakesLatest ==
    [][RouterTakes => (latest' = last_sent /\ rx' = <<>>)]_vars

\* C13: the value fused on every tick and every value sent have the read_only
\* list of the configured endpoint.
C13_ReadOnlyUnchanged ==
    /\ pre_rw_endpoint.read_only = rw_endpoint.read_only
    /\ sent # None => Unwrap(sent).read_only = rw_endpoint.read_only
    /\ last_sent # None => Unwrap(last_sent).read_only = rw_endpoint.read_only

\* A tick that changed both pools and sent the value.
C13_Witness ==
    /\ Fused
    /\ sent = Some(pre_rw_endpoint)
    /\ pre_rw_endpoint.readwrite # rw_endpoint.readwrite
    /\ pre_rw_endpoint.read # rw_endpoint.read

\* C14: once shutdown is requested and the tick then in progress has completed,
\* the task receives no response and completes no tick.
C14_ShutdownStopsTicks ==
    [][(shutdown # None /\ ticks > Unwrap(shutdown)) => UNCHANGED <<received, ticks>>]_vars

\* C15: once the senders of the monitor response channel are gone the task
\* receives nothing more, and after a send that failed because the receivers are
\* gone it receives no response and completes no tick.
C15_ChannelClosedIsFatal ==
    [][/\ (monitors_gone /\ monitor_response_rx = <<>>) => received' <= received
       /\ send_err => UNCHANGED <<received, ticks>>]_vars

Periods ==
    {"monitor_period", "connect_period", "ping_period", "replication_lag_period",
     "read_only_period"}
Timeouts == {"connect_timeout", "ping_timeout", "replication_lag_timeout", "read_only_timeout"}
Thresholds ==
    {"connect_failure_threshold", "ping_failure_threshold",
     "replication_lag_failure_threshold", "read_only_failure_threshold"}

\* C16: in the deserialized configuration every omitted period is 1000, every
\* omitted timeout 6000, every omitted failure threshold 1 and an omitted
\* max_replication_lag 10000; a field the document gives keeps its value.
C16_DiscoveryDefaults ==
    mha # None =>
        \A f \in Fields :
            IF given[f] # None
            THEN Unwrap(mha)[f] = Unwrap(given[f])
            ELSE /\ f \in Periods => Unwrap(mha)[f] = 1000
                 /\ f \in Timeouts => Unwrap(mha)[f] = 6000
                 /\ f \in Thresholds => Unwrap(mha)[f] = 1
                 /\ f = "max_replication_lag" => Unwrap(mha)[f] = 10000

\* A document that omits every field, deserialized.
C16_Witness == mha # None /\ given = NoFields

\* C17: a tick that fused, to its end or to a panic, had a snapshot of each of
\* the four kinds.
C17_FusesAfterEveryKind ==
    (ticks > 0 \/ pc = "panicked") => AllSome

\* C18: with a snapshot of each kind, each with an entry for every configured
\* address, the task does not panic.
C18_TickNeverAborts ==
    (AllSome /\ \A a \in Addresses : HasEntries(a)) => pc # "panicked"

\* A response waiting in the monitor response channel differs from the retained
\* response of its kind.
NewerWaiting ==
    \E i \in DOMAIN monitor_response_rx :
        Retained(monitor_response_rx[i]) # Some(monitor_response_rx[i].val)

\* C19: when the task has received the last response of a tick and retains a
\* snapshot of each kind, no response that differs from the retained one of its
\* kind is left waiting in the monitor response channel.
C19_FusesMostRecent ==
    [][(received = monitors_len - 1 /\ received' = monitors_len /\ AllSome') =>
          ~NewerWaiting']_vars

====
